---- MODULE Spec2Model ----
(***************************************************************************)
(* Evolved spaceship duel: the physics state machine (game.rs), the match  *)
(* runner (simulation.rs) and the population (evolution.rs, genome.rs).    *)
(*                                                                         *)
(* Numbers.  The program computes in f32.  The model computes in fixed     *)
(* point: lengths and speeds in 1/Q of an arena unit, unit-interval values *)
(* (control signals, cos, sin) in 1/Milli, angles in milliradians, time in *)
(* ticks of SIM_DT = 1/60 s.  Every product is rounded to the nearest      *)
(* integer (RDiv), as f32 rounds to the nearest representable value.       *)
(***************************************************************************)
EXTENDS Integers, Sequences, FiniteSets, TLC

(* ------------------------------------------------------------ constants *)
ARENA_WIDTH == 800
ARENA_HEIGHT == 600
SHIP_ROTATION_SPEED == 5
SHIP_THRUST == 200
\* SHIP_DRAG = 0.98, in hundredths
SHIP_DRAG == 98
PROJECTILE_SPEED == 400
\* PROJECTILE_LIFETIME = 2.0 seconds
PROJECTILE_LIFETIME == 2
\* FIRE_COOLDOWN = 0.25 seconds, as the divisor of one second
FIRE_COOLDOWN_DIV == 4
\* MATCH_DURATION = 30.0 seconds
MATCH_DURATION == 30
SHIP_RADIUS == 12
PROJECTILE_RADIUS == 2
MAX_PROJECTILES_PER_SHIP == 5
MAX_SHIP_SPEED == 300
\* SIM_DT = 1.0 / 60.0: ticks per second
TICKS_PER_SEC == 60
\* std::f32::consts::PI in milliradians (even, so that PI / 2 is exact)
PI_MILLI == 3142

\* resolution of the f32 lengths and speeds: tenths
Q == 10
\* resolution of the f32 unit-interval values and of angles: thousandths
Milli == 1000
\* resolution of the drag factor powf returns
DragScale == 10000

W == ARENA_WIDTH * Q
H == ARENA_HEIGHT * Q
FireCooldownTicks == TICKS_PER_SEC \div FIRE_COOLDOWN_DIV
LifetimeTicks == PROJECTILE_LIFETIME * TICKS_PER_SEC
MatchTicks == MATCH_DURATION * TICKS_PER_SEC
MaxSpeedQ == MAX_SHIP_SPEED * Q

(* ----------------------------------------------------------- arithmetic *)
Max2(a, b) == IF a >= b THEN a ELSE b

Min2(a, b) == IF a <= b THEN a ELSE b

\* a / b rounded to the nearest integer (b > 0), halves away from zero
RDiv(a, b) == IF a >= 0 THEN (a + b \div 2) \div b ELSE -((b \div 2 - a) \div b)

\* Rust's % on a signed dividend: the result has the sign of the dividend
Rem(a, b) == IF a >= 0 THEN a % b ELSE -((-a) % b)

\* f32::clamp(lo, hi)
Clamp(v, lo, hi) == IF v < lo THEN lo ELSE IF v > hi THEN hi ELSE v

RECURSIVE SqrtIter(_, _)
SqrtIter(n, g) ==
    LET g2 == (g + n \div g) \div 2
    IN  IF g2 >= g THEN g ELSE SqrtIter(n, g2)

\* floor of the square root (Newton's iteration from above)
FloorSqrt(n) == IF n <= 0 THEN 0 ELSE SqrtIter(n, n)

\* f32::sqrt: the nearest value of the model's resolution
Sqrt(n) ==
    LET f == FloorSqrt(n)
    IN  IF n - f * f > f THEN f + 1 ELSE f

\* sin on [0, PI], in thousandths (Bhaskara's rational approximation,
\* exact at 0, PI/2 and PI, within 2 thousandths elsewhere)
SinHalf(x) ==
    LET p == x * (PI_MILLI - x)
        d == RDiv(5 * PI_MILLI * PI_MILLI - 4 * p, Milli)
    IN  RDiv(16 * p, d)

\* f32::sin of an angle in milliradians
Sin(r) ==
    LET m == r % (2 * PI_MILLI)
    IN  IF m <= PI_MILLI THEN SinHalf(m) ELSE -SinHalf(m - PI_MILLI)

\* f32::cos of an angle in milliradians
Cos(r) == Sin(r + PI_MILLI \div 2)

RECURSIVE PowDrag(_)
\* SHIP_DRAG.powf(dt * 60.0) for dt a whole number n of ticks, by squaring
PowDrag(n) ==
    IF n <= 0 THEN DragScale
    ELSE IF n % 2 = 0
         THEN LET h == PowDrag(n \div 2) IN RDiv(h * h, DragScale)
         ELSE RDiv(PowDrag(n - 1) * SHIP_DRAG, 100)

(* ------------------------------------------------------------- geometry *)
\* game.rs wrap: ((val % max) + max) % max
wrap(val, max) == Rem(Rem(val, max) + max, max)

\* game.rs toroidal_diff; max / 2.0 is compared without rounding
toroidal_diff(a, b, max) ==
    LET d == a - b
    IN  IF 2 * d > max THEN d - max
        ELSE IF 2 * d < -max THEN d + max
        ELSE d

(* ------------------------------------------------------------ GameState *)
\* Ship::new
NewShip(x, y, rotation) ==
    [x |-> x, y |-> y, vx |-> 0, vy |-> 0, rotation |-> rotation, alive |-> TRUE,
     fire_cooldown |-> 0, shots_fired |-> 0, hits_scored |-> 0]

\* GameState::new_random, given the four values drawn from the random source:
\* y1, y2 in [150, 450) and the two heading offsets in [-0.5, 0.5).
\* winner: Option<usize> is the set of at most one index.
new_random(y1, y2, r1, r2) ==
    [ships |-> [i \in {0, 1} |-> IF i = 0 THEN NewShip(200 * Q, y1, r1)
                                           ELSE NewShip(600 * Q, y2, PI_MILLI + r2)],
     projectiles |-> <<>>,
     time |-> 0,
     match_over |-> FALSE,
     winner |-> {}]

\* the number of projectiles of owner i
OwnProjectiles(projectiles, i) ==
    Cardinality({k \in DOMAIN projectiles : projectiles[k].owner = i})

\* update, "Speed cap": rescale a velocity above MAX_SHIP_SPEED
SpeedCap(vx, vy) ==
    LET speed == Sqrt(vx * vx + vy * vy)
    IN  IF speed > MaxSpeedQ
        THEN <<RDiv(vx * MaxSpeedQ, speed), RDiv(vy * MaxSpeedQ, speed)>>
        ELSE <<vx, vy>>

\* "Drag" with the exponent dt instead of dt * 60 (dt in whole seconds)
DragPerSecond(v, dt) == RDiv(v * PowDrag(dt \div TICKS_PER_SEC), DragScale)

\* update, "Drag": both velocity components times SHIP_DRAG^(dt * 60)
Drag(v, dt) == RDiv(v * PowDrag(dt), DragScale)

\* update, "Thrust": the velocity gained along one axis (c is cos or sin)
ThrustGain(c, thrust, dt) ==
    RDiv(RDiv(c * thrust, Milli) * SHIP_THRUST * Q * dt, Milli * TICKS_PER_SEC)

\* "Fire" that does not look at the cooldown
FireReadyNoCooldown(fire, cooldown) == fire > Milli \div 2

\* update, "Fire": the fire signal and the cooldown allow a shot
FireReady(fire, cooldown) == fire > Milli \div 2 /\ cooldown <= 0

\* "Fire" with the cap compared by <= instead of <
UnderCapOffByOne(projectiles, i) ==
    OwnProjectiles(projectiles, i) <= MAX_PROJECTILES_PER_SHIP

\* update, "Fire": the ship is under the projectile cap
UnderCap(projectiles, i) == OwnProjectiles(projectiles, i) < MAX_PROJECTILES_PER_SHIP

\* update, the body of "for i in 0..2" for ship i (dt in ticks, acts[i] the
\* four control signals in thousandths)
StepShip(s, i, dt, acts) ==
    LET sh == s.ships[i]
        a == acts[i]
        thrust == Clamp(a[1], 0, Milli)
        turn_left == Clamp(a[2], 0, Milli)
        turn_right == Clamp(a[3], 0, Milli)
        fire == a[4]
        rotation == sh.rotation
                    + RDiv((turn_right - turn_left) * SHIP_ROTATION_SPEED * dt, TICKS_PER_SEC)
        cos == Cos(rotation)
        sin == Sin(rotation)
        v == SpeedCap(Drag(sh.vx + ThrustGain(cos, thrust, dt), dt),
                      Drag(sh.vy + ThrustGain(sin, thrust, dt), dt))
        x == wrap(sh.x + RDiv(v[1] * dt, TICKS_PER_SEC), W)
        y == wrap(sh.y + RDiv(v[2] * dt, TICKS_PER_SEC), H)
        cooldown == Max2(sh.fire_cooldown - dt, 0)
        shoots == FireReady(fire, cooldown) /\ UnderCap(s.projectiles, i)
        p == [x |-> x + RDiv(cos * SHIP_RADIUS * Q, Milli),
              y |-> y + RDiv(sin * SHIP_RADIUS * Q, Milli),
              vx |-> RDiv(cos * PROJECTILE_SPEED * Q, Milli) + RDiv(v[1] * 3, 10),
              vy |-> RDiv(sin * PROJECTILE_SPEED * Q, Milli) + RDiv(v[2] * 3, 10),
              lifetime |-> LifetimeTicks,
              owner |-> i]
        moved == [sh EXCEPT !.rotation = rotation, !.vx = v[1], !.vy = v[2],
                            !.x = x, !.y = y,
                            !.fire_cooldown = IF shoots THEN FireCooldownTicks ELSE cooldown,
                            !.shots_fired = IF shoots THEN @ + 1 ELSE @]
    IN  IF ~sh.alive THEN s
        ELSE [s EXCEPT !.ships[i] = moved,
                       !.projectiles = IF shoots THEN Append(@, p) ELSE @]

\* update, "Ship-to-ship collision (elastic bounce)"
CollideShips(ships) ==
    LET a == ships[0]
        b == ships[1]
        dx == toroidal_diff(a.x, b.x, W)
        dy == toroidal_diff(a.y, b.y, H)
        dist_sq == dx * dx + dy * dy
        min_dist == SHIP_RADIUS * 2 * Q
        dist == Sqrt(dist_sq)
        nx == RDiv(dx * Milli, dist)
        ny == RDiv(dy * Milli, dist)
        overlap == min_dist - dist
        ax == wrap(a.x + RDiv(nx * overlap, 2 * Milli), W)
        ay == wrap(a.y + RDiv(ny * overlap, 2 * Milli), H)
        bx == wrap(b.x - RDiv(nx * overlap, 2 * Milli), W)
        by == wrap(b.y - RDiv(ny * overlap, 2 * Milli), H)
        rel_vn == RDiv((a.vx - b.vx) * nx + (a.vy - b.vy) * ny, Milli)
        ix == IF rel_vn < 0 THEN RDiv(rel_vn * nx, Milli) ELSE 0
        iy == IF rel_vn < 0 THEN RDiv(rel_vn * ny, Milli) ELSE 0
    IN  IF a.alive /\ b.alive /\ dist_sq < min_dist * min_dist /\ dist_sq > 0
        THEN [i \in {0, 1} |->
                 IF i = 0 THEN [a EXCEPT !.x = ax, !.y = ay, !.vx = @ - ix, !.vy = @ - iy]
                          ELSE [b EXCEPT !.x = bx, !.y = by, !.vx = @ + ix, !.vy = @ + iy]]
        ELSE ships

\* update, "Update projectiles": move, wrap, age, and drop the expired ones
MoveProjectiles(projectiles, dt) ==
    LET Moved(p) == [p EXCEPT !.x = wrap(@ + RDiv(p.vx * dt, TICKS_PER_SEC), W),
                              !.y = wrap(@ + RDiv(p.vy * dt, TICKS_PER_SEC), H),
                              !.lifetime = @ - dt]
        Live(p) == p.lifetime > 0
    IN  SelectSeq([k \in DOMAIN projectiles |-> Moved(projectiles[k])], Live)

\* update, "Collision detection": projectile p is within the hit radius of ship t
Hits(p, t) ==
    LET dx == toroidal_diff(p.x, t.x, W)
        dy == toroidal_diff(p.y, t.y, H)
        hit_radius == (SHIP_RADIUS + PROJECTILE_RADIUS) * Q
    IN  dx * dx + dy * dy < hit_radius * hit_radius

RECURSIVE HitScanCreditsTarget(_, _, _, _)
\* "Collision detection" crediting the hit to the ship that was hit
HitScanCreditsTarget(ships, projectiles, pi, dead) ==
    IF pi > Len(projectiles) THEN [ships |-> ships, dead |-> dead]
    ELSE LET p == projectiles[pi]
             target == 1 - p.owner
         IN  IF ships[target].alive /\ Hits(p, ships[target])
             THEN HitScanCreditsTarget([ships EXCEPT ![target].alive = FALSE,
                                                     ![target].hits_scored = @ + 1],
                                       projectiles, pi + 1, Append(dead, pi))
             ELSE HitScanCreditsTarget(ships, projectiles, pi + 1, dead)

RECURSIVE HitScanNoAliveCheck(_, _, _, _)
\* "Collision detection" without "if !self.ships[target].alive { continue; }"
HitScanNoAliveCheck(ships, projectiles, pi, dead) ==
    IF pi > Len(projectiles) THEN [ships |-> ships, dead |-> dead]
    ELSE LET p == projectiles[pi]
             target == 1 - p.owner
         IN  IF Hits(p, ships[target])
             THEN HitScanNoAliveCheck([ships EXCEPT ![target].alive = FALSE,
                                                    ![p.owner].hits_scored = @ + 1],
                                      projectiles, pi + 1, Append(dead, pi))
             ELSE HitScanNoAliveCheck(ships, projectiles, pi + 1, dead)

RECURSIVE HitScan(_, _, _, _)
\* update, "Collision detection": the loop over the projectiles from index pi
\* on; the result is the ships and the indices of the projectiles that hit
HitScan(ships, projectiles, pi, dead) ==
    IF pi > Len(projectiles) THEN [ships |-> ships, dead |-> dead]
    ELSE LET p == projectiles[pi]
             target == 1 - p.owner
         IN  IF ships[target].alive /\ Hits(p, ships[target])
             THEN HitScan([ships EXCEPT ![target].alive = FALSE,
                                        ![p.owner].hits_scored = @ + 1],
                          projectiles, pi + 1, Append(dead, pi))
             ELSE HitScan(ships, projectiles, pi + 1, dead)

\* Vec::remove(pi)
RemoveAt(seq, pi) == [k \in 1..(Len(seq) - 1) |-> IF k < pi THEN seq[k] ELSE seq[k + 1]]

\* the removal walking dead from its first index up: every removal shifts
\* the projectiles behind it, and the later indices name other projectiles
RemoveDeadAscending(projectiles, dead, n) ==
    LET F[k \in 0..n] ==
            IF k = 0 THEN projectiles ELSE RemoveAt(F[k - 1], dead[k])
    IN  F[n]

RECURSIVE RemoveDead(_, _, _)
\* update, "Remove hit projectiles in reverse order": dead is sorted
\* ascending (sort_unstable) and walked from its last index n down
RemoveDead(projectiles, dead, n) ==
    IF n = 0 THEN projectiles
    ELSE RemoveDead(RemoveAt(projectiles, dead[n]), dead, n - 1)

\* "Check match end" naming a winner without looking at the other ship
CheckMatchEndAnySurvivor(s) ==
    LET alive_count == Cardinality({i \in {0, 1} : s.ships[i].alive})
    IN  IF alive_count <= 1 \/ s.time >= MatchTicks
        THEN [s EXCEPT !.match_over = TRUE,
                       !.winner = IF s.ships[0].alive THEN {0}
                                  ELSE IF s.ships[1].alive THEN {1}
                                  ELSE @]
        ELSE s

\* "Check match end" with the time compared by > instead of >=
CheckMatchEndLate(s) ==
    LET alive_count == Cardinality({i \in {0, 1} : s.ships[i].alive})
    IN  IF alive_count <= 1 \/ s.time > MatchTicks
        THEN [s EXCEPT !.match_over = TRUE,
                       !.winner = IF s.ships[0].alive /\ ~s.ships[1].alive THEN {0}
                                  ELSE IF s.ships[1].alive /\ ~s.ships[0].alive THEN {1}
                                  ELSE @]
        ELSE s

\* update, "Check match end"
CheckMatchEnd(s) ==
    LET alive_count == Cardinality({i \in {0, 1} : s.ships[i].alive})
    IN  IF alive_count <= 1 \/ s.time >= MatchTicks
        THEN [s EXCEPT !.match_over = TRUE,
                       !.winner = IF s.ships[0].alive /\ ~s.ships[1].alive THEN {0}
                                  ELSE IF s.ships[1].alive /\ ~s.ships[0].alive THEN {1}
                                  ELSE @]
        ELSE s

\* update, the running branch (match_over false on entry)
UpdateRunning(s, dt, acts) ==
    LET s1 == StepShip([s EXCEPT !.time = @ + dt], 0, dt, acts)
        s2 == StepShip(s1, 1, dt, acts)
        s3 == [s2 EXCEPT !.ships = CollideShips(@),
                         !.projectiles = MoveProjectiles(@, dt)]
        hs == HitScan(s3.ships, s3.projectiles, 1, <<>>)
    IN  CheckMatchEnd([s3 EXCEPT !.ships = hs.ships,
                                 !.projectiles = RemoveDead(@, hs.dead, Len(hs.dead))])

\* update without the early return: the running branch follows
UpdateOverFallsThrough(s, dt, acts) == UpdateRunning([s EXCEPT !.time = @ + dt], dt, acts)

\* update, the branch taken when match_over is already true: time advances
\* and the function returns
UpdateOver(s, dt, acts) == [s EXCEPT !.time = @ + dt]

\* GameState::update(dt, actions)
Update(s, dt, acts) == IF s.match_over THEN UpdateOver(s, dt, acts) ELSE UpdateRunning(s, dt, acts)

(* --------------------------------------------------------------- Genome *)
\* sigmoid(x) = 1 / (1 + exp(-x)) in thousandths, at the weights the model's
\* genomes carry (weights are clamped to [-3, 3])
sigmoid(x) ==
    CASE x = -3 -> 47
      [] x = 0 -> 500
      [] x = 3 -> 953

\* Genome::evaluate for a genome whose connection weights are all zero: every
\* hidden neuron is tanh(0) = 0 whatever the sensor inputs are, and output o is
\* sigmoid of its bias.  g is the four output biases
\* <<thrust, turn_left, turn_right, fire>>.
evaluate(g) == [o \in 1..4 |-> sigmoid(g[o])]

(* ---------------------------------------------------------------- state *)
VARIABLES
    state,          \* the GameState (run_match: state, main: match_state)
    prev,           \* history: the GameState the last update call started from
    lastDt,         \* history: dt of the last update call
    lastActs,       \* history: actions of the last update call
    calls,          \* history: the number of update calls so far
    last_shot,      \* history: state.time at each ship's last shot, -1 before
    pc,             \* where the caller of update stands
    genomes,        \* run_match: the two genomes [g1, g2]
    proximity_sum,  \* run_match: proximity_sum
    step_count,     \* run_match: step_count
    iter,           \* run_match: iterations of "for _ in 0..SIM_STEPS" started
    result          \* run_match: MatchResult.fitness once returned

gvars == <<state, prev, lastDt, lastActs, calls, last_shot, pc, genomes, proximity_sum,
           step_count, iter, result>>

VARIABLES
    population,     \* the Population: genomes, generation, best_fitness
    ppc,            \* where the caller of evaluate and evolve stands
    ei,             \* evaluate: i of "for i in 0..POPULATION_SIZE"
    em,             \* evaluate: matches of genome i played so far
    last_match,     \* history: <<i, j>> of the last match evaluate ran
    new_genomes,    \* evolve: new_genomes
    before,         \* history: genomes when evolve started, if it was the last call
    played,         \* history: <<i, j, fitness>> of each match of the last evaluate
    had_fitness,    \* history: evaluate started on genomes with a fitness other than 0
    top_two         \* history: what get_top_two returned, if it was the last call

pvars == <<population, ppc, ei, em, last_match, new_genomes, before, played,
           had_fitness, top_two>>

VARIABLES
    call            \* one call of a function of game.rs or genome.rs: its
                    \* name, its arguments and what it returned

fvars == <<call>>

VARIABLES
    app,            \* main: the locals of the render loop
    tasks           \* the threads spawn_evolution started and nobody joined yet

mvars == <<app, tasks>>

vars == <<gvars, pvars, fvars, mvars>>

NoActs == [i \in {0, 1} |-> <<0, 0, 0, 0>>]

\* the values GameState::new_random can draw, as <<y1, y2, r1, r2>> (y in
\* tenths, heading offsets in milliradians): level and head-on, level with
\* ship 1 looking away, a crossing course, and two courses on which the ships
\* never meet
Seeds ==
    {<<3000, 3000, 0, 0>>, <<3000, 3000, 0, 400>>, <<3000, 3810, 0, 400>>,
     <<1500, 4490, 0, 0>>, <<2000, 4000, -500, 499>>}

\* no Population has been built: the match and update specifications
PopIdle ==
    /\ population = [genomes |-> <<>>, generation |-> 0, best_fitness |-> 0]
    /\ ppc = "off"
    /\ ei = 0
    /\ em = 0
    /\ last_match = <<>>
    /\ new_genomes = <<>>
    /\ before = <<>>
    /\ played = <<>>
    /\ had_fitness = FALSE
    /\ top_two = <<>>

\* no function is called on its own
FnIdle == call = [op |-> "none"]

\* the application is not running
MainIdle == app = [pc |-> "off"] /\ tasks = {}

\* no match is shown or run: the population specification
GameIdle ==
    /\ state = new_random(3000, 3000, 0, 0)
    /\ prev = state
    /\ lastDt = 0
    /\ lastActs = NoActs
    /\ calls = 0
    /\ last_shot = [i \in {0, 1} |-> -1]
    /\ pc = "off"
    /\ genomes = [i \in {0, 1} |-> <<0, 0, 0, 0>>]
    /\ proximity_sum = [i \in {0, 1} |-> 0]
    /\ step_count = 0
    /\ iter = 0
    /\ result = <<>>

\* one call state.update(dt, acts), with the history of the call
DoUpdate(dt, acts) ==
    /\ state' = Update(state, dt, acts)
    /\ prev' = state
    /\ lastDt' = dt
    /\ lastActs' = acts
    /\ calls' = calls + 1
    /\ last_shot' = [i \in {0, 1} |->
                        IF state'.ships[i].shots_fired > state.ships[i].shots_fired
                        THEN state'.time
                        ELSE last_shot[i]]

(* ------------------------------------------------------------ run_match *)
\* SIM_STEPS = (MATCH_DURATION / SIM_DT) as usize: in f32, 30.0 / (1.0 / 60.0)
\* is 1799.9999 and the cast truncates
SIM_STEPS == 1799

\* the bias-only genomes of the model: idle drifter (all outputs 0.5), gunner
\* (fires, no thrust), charger (thrust and fire), runner (thrust only),
\* spinner (turns right and fires)
Genomes ==
    {<<0, 0, 0, 0>>, <<-3, 0, 0, 3>>, <<3, 0, 0, 3>>, <<3, 0, 0, -3>>, <<-3, -3, 3, 3>>}

\* run_match, "Accumulate proximity each step": prox in thousandths
Proximity(s) ==
    LET dx == toroidal_diff(s.ships[0].x, s.ships[1].x, W)
        dy == toroidal_diff(s.ships[0].y, s.ships[1].y, H)
        dist == Sqrt(dx * dx + dy * dy)
    IN  Milli - Min2(RDiv(dist * Milli, 500 * Q), Milli)

\* "Compute fitness" with the win bonus test the wrong way round
FitnessWinBonusToDead(s, avg_proximity, i) ==
    LET ship == s.ships[i]
        opp == s.ships[1 - i]
        elapsed == Min2(RDiv(s.time * Milli, MatchTicks), Milli)
    IN  (IF ~ship.alive /\ opp.alive THEN 100 * Milli ELSE 0)
        - (IF ~ship.alive THEN 20 * Milli ELSE 0)
        + ship.hits_scored * 50 * Milli
        + (IF ship.shots_fired > 0
           THEN RDiv(ship.hits_scored * 30 * Milli, ship.shots_fired) ELSE 0)
        + Min2(ship.shots_fired, 20) * (Milli \div 2)
        + avg_proximity[i] * 20
        + (IF ship.alive THEN elapsed * 15 ELSE elapsed * 5)

\* run_match, "Compute fitness for each ship", in thousandths
Fitness(s, avg_proximity, i) ==
    LET ship == s.ships[i]
        opp == s.ships[1 - i]
        elapsed == Min2(RDiv(s.time * Milli, MatchTicks), Milli)
    IN  (IF ship.alive /\ ~opp.alive THEN 100 * Milli ELSE 0)
        - (IF ~ship.alive THEN 20 * Milli ELSE 0)
        + ship.hits_scored * 50 * Milli
        + (IF ship.shots_fired > 0
           THEN RDiv(ship.hits_scored * 30 * Milli, ship.shots_fired) ELSE 0)
        + Min2(ship.shots_fired, 20) * (Milli \div 2)
        + avg_proximity[i] * 20
        + (IF ship.alive THEN elapsed * 15 ELSE elapsed * 5)

\* run_match: construction of the state and of the accumulators
MatchInit ==
    /\ \E sd \in Seeds : state = new_random(sd[1], sd[2], sd[3], sd[4])
    /\ genomes \in [{0, 1} -> Genomes]
    /\ prev = state
    /\ lastDt = 0
    /\ lastActs = NoActs
    /\ calls = 0
    /\ last_shot = [i \in {0, 1} |-> -1]
    /\ pc = "loop"
    /\ proximity_sum = [i \in {0, 1} |-> 0]
    /\ step_count = 0
    /\ iter = 0
    /\ result = <<>>
    /\ PopIdle
    /\ FnIdle
    /\ MainIdle

\* the loop without "if state.match_over { break; }"
LoopEntersNoBreak == iter < SIM_STEPS

\* run_match: the loop is entered for another iteration
LoopEnters == iter < SIM_STEPS /\ ~state.match_over

\* run_match: one iteration of the loop body
MatchTick ==
    /\ pc = "loop"
    /\ LoopEnters
    /\ DoUpdate(1, [i \in {0, 1} |-> evaluate(genomes[i])])
    /\ proximity_sum' = [i \in {0, 1} |-> proximity_sum[i] + Proximity(state')]
    /\ step_count' = step_count + 1
    /\ iter' = iter + 1
    /\ UNCHANGED <<pc, genomes, result>>
    /\ UNCHANGED <<pvars, fvars, mvars>>

\* run_match: the loop is left (break, or SIM_STEPS iterations done) and the
\* MatchResult is computed and returned
MatchReturn ==
    /\ pc = "loop"
    /\ ~LoopEnters
    /\ LET avg_proximity ==
               IF step_count > 0
               THEN [i \in {0, 1} |-> RDiv(proximity_sum[i], step_count)]
               ELSE [i \in {0, 1} |-> 0]
       IN  result' = [i \in {0, 1} |-> Fitness(state, avg_proximity, i)]
    /\ pc' = "done"
    /\ UNCHANGED <<state, prev, lastDt, lastActs, calls, last_shot, genomes, proximity_sum,
                   step_count, iter>>
    /\ UNCHANGED <<pvars, fvars, mvars>>

(* ------------------------------------------- update called by any caller *)
\* the most update calls of one behaviour of Spec
MaxCalls == 2

\* the time steps a caller passes, in ticks: one SIM_DT, 0.25 s, 0.95 s, 1 s
\* and 15 s
DtSet == {1, 15, 57, 60, 900}

\* the control signals a caller passes for one ship: nothing, thrust above
\* the range the signal is clamped to, and fire
ActSet == {<<0, 0, 0, 0>>, <<2000, 0, 0, 0>>, <<0, 0, 0, 1000>>}

\* a GameState fresh from new_random, and no match runner around it
ApiInit ==
    /\ \E sd \in Seeds : state = new_random(sd[1], sd[2], sd[3], sd[4])
    /\ prev = state
    /\ lastDt = 0
    /\ lastActs = NoActs
    /\ calls = 0
    /\ last_shot = [i \in {0, 1} |-> -1]
    /\ pc = "api"
    /\ genomes = [i \in {0, 1} |-> <<0, 0, 0, 0>>]
    /\ proximity_sum = [i \in {0, 1} |-> 0]
    /\ step_count = 0
    /\ iter = 0
    /\ result = <<>>
    /\ PopIdle
    /\ FnIdle
    /\ MainIdle

\* some caller calls update(dt, actions), whatever the state is
ApiUpdate ==
    /\ pc = "api"
    /\ calls < MaxCalls
    /\ \E dt \in DtSet, a0 \in ActSet, a1 \in ActSet :
           DoUpdate(dt, [i \in {0, 1} |-> IF i = 0 THEN a0 ELSE a1])
    /\ UNCHANGED <<pc, genomes, proximity_sum, step_count, iter, result>>
    /\ UNCHANGED <<pvars, fvars, mvars>>

\* the GameState is driven either by run_match or by a caller of its own
Init == MatchInit \/ ApiInit

Next == MatchTick \/ MatchReturn \/ ApiUpdate

Spec == Init /\ [][Next]_vars

(* ----------------------------------------------------------- Population *)
\* The sizes of the population, at the scale of the model: the program
\* runs 100 genomes of 384 weights, 8 matches per genome, tournaments of 5
\* and 5 elites.
POPULATION_SIZE == 3
MATCHES_PER_EVAL == 1
TOURNAMENT_SIZE == 2
ELITE_COUNT == 2
GENOME_SIZE == 2

\* the most evolve calls of one behaviour of SpecPop
MaxGenerations == 1

\* weights in tenths: MUTATION_STRENGTH 0.4, and the bound of w.clamp(-3.0, 3.0)
MUTATION_STRENGTH == 4
WEIGHT_LIMIT == 30

\* the values rng.gen_range(-1.0..1.0) of Genome::random draws: both ends of
\* the half-open range, in tenths
RandomWeights == {-10, 9}

\* the values rng.gen_range(-strength..strength) of mutate draws: both ends
\* of the half-open range
Deltas(strength) == {-strength, strength - 1}

\* Genome::random, ws the weights drawn
random(ws) == [weights |-> ws, fitness |-> 0]

\* crossover with "i <= point" for "i < point"
crossover_cut_inclusive(a, b, point) ==
    [weights |-> [k \in 1..GENOME_SIZE |->
                      IF k - 1 <= point THEN a.weights[k] ELSE b.weights[k]],
     fitness |-> 0]

\* Genome::crossover, point the value drawn by rng.gen_range(0..GENOME_SIZE)
crossover(a, b, point) ==
    [weights |-> [k \in 1..GENOME_SIZE |->
                      IF k - 1 < point THEN a.weights[k] ELSE b.weights[k]],
     fitness |-> 0]

\* Genome::mutate without the clamp
mutate_unclamped(g, plan) ==
    [g EXCEPT !.weights =
        [k \in 1..Len(g.weights) |->
            IF plan[k] = <<>> THEN g.weights[k]
            ELSE g.weights[k] + plan[k][1]]]

\* Genome::mutate: plan[k] is <<>> where rng.gen::<f32>() < rate is false for
\* weight k, and <<d>> where it is true and d is the value added
mutate(g, plan) ==
    [g EXCEPT !.weights =
        [k \in 1..Len(g.weights) |->
            IF plan[k] = <<>> THEN g.weights[k]
            ELSE Clamp(g.weights[k] + plan[k][1], -WEIGHT_LIMIT, WEIGHT_LIMIT)]]

\* MUTATION_RATE 0.15, in hundredths
MUTATION_RATE == 15

\* the values rng.gen::<f32>() draws, in hundredths: both ends of [0, 1)
UnitDraws == {0, 99}

\* the test of mutate with <= for <
HitInclusive(u, rate) == u <= rate

\* mutate: "rng.gen::<f32>() < rate", u the value drawn
Hit(u, rate) == u < rate

\* the mutation plans rng can draw for a rate and a strength
MutationPlansAt(rate, strength) ==
    [1..GENOME_SIZE ->
        {IF Hit(u, rate) THEN <<d>> ELSE <<>> :
             u \in UnitDraws, d \in Deltas(strength)}]

\* the mutation plans rng can draw for MUTATION_RATE and a strength
MutationPlans(strength) == MutationPlansAt(MUTATION_RATE, strength)

\* the fitness pairs run_match returns, in thousandths: ship 0 wins, ship 1
\* wins, nobody is hit (values MatchReturn computes for the Genomes above)
MatchResults == {<<164025, -13785>>, <<-12800, 163760>>, <<19985, 29985>>}

\* the opponent index without "if j >= i { j += 1; }"
OpponentIndexNoShift(i, r) == r

\* evaluate: the opponent index made of r = rng.gen_range(0..POPULATION_SIZE - 1)
OpponentIndex(i, r) == IF r >= i THEN r + 1 ELSE r

\* the fold with f32::min for f32::max
RECURSIVE FoldMin(_, _)
FoldMin(acc, gs) ==
    IF gs = <<>> THEN acc ELSE FoldMin(Min2(acc, Head(gs).fitness), Tail(gs))

\* evaluate: genomes.iter().map(|g| g.fitness).fold(0.0f32, f32::max)
RECURSIVE FoldMax(_, _)
FoldMax(acc, gs) ==
    IF gs = <<>> THEN acc ELSE FoldMax(Max2(acc, Head(gs).fitness), Tail(gs))

\* the comparator turned round, a.fitness.partial_cmp(&b.fitness)
by_fitness_ascending(a, b) == a.fitness <= b.fitness

\* the comparator of sort_by, b.fitness.partial_cmp(&a.fitness): TRUE when it
\* does not return Greater, that is when a may stay in front of b
by_fitness(a, b) == b.fitness <= a.fitness

\* sort_by is a stable sort: g goes behind every element it may not pass
InsertSorted(sorted, g) ==
    LET k == Cardinality({n \in 1..Len(sorted) : by_fitness(sorted[n], g)})
    IN  SubSeq(sorted, 1, k) \o <<g>> \o SubSeq(sorted, k + 1, Len(sorted))

\* self.genomes.sort_by(|a, b| b.fitness.partial_cmp(&a.fitness).unwrap())
RECURSIVE sort_by(_)
sort_by(gs) ==
    IF gs = <<>> THEN <<>>
    ELSE InsertSorted(sort_by(SubSeq(gs, 1, Len(gs) - 1)), gs[Len(gs)])

\* tournament_select: picks are the TOURNAMENT_SIZE indices drawn (from 1),
\* best the index held after the first n of them
RECURSIVE TournamentBest(_, _, _)
TournamentBest(gs, picks, n) ==
    IF n = 1 THEN picks[1]
    ELSE LET best == TournamentBest(gs, picks, n - 1)
         IN  IF gs[picks[n]].fitness > gs[best].fitness THEN picks[n] ELSE best

tournament_select(gs, picks) == gs[TournamentBest(gs, picks, TOURNAMENT_SIZE)]

\* the weights Population::new draws for its POPULATION_SIZE genomes: genome
\* n starts with (n + c) % (GENOME_SIZE + 1) weights of 0.9 and has -1.0 for
\* the rest, which makes neighbours differ, or every second genome is all
\* 0.9 and the others all -1.0, which makes genomes with equal weights
RandomPopulations ==
    {[n \in 1..POPULATION_SIZE |->
         [k \in 1..GENOME_SIZE |->
             IF k <= (n + c) % (GENOME_SIZE + 1) THEN 9 ELSE -10]] : c \in {0, 1}}
    \cup {[n \in 1..POPULATION_SIZE |->
              [k \in 1..GENOME_SIZE |-> IF n % 2 = 0 THEN 9 ELSE -10]]}

\* Population::new
PopInit ==
    /\ \E ws \in RandomPopulations :
           population = [genomes |-> [n \in 1..POPULATION_SIZE |-> random(ws[n])],
                         generation |-> 0,
                         best_fitness |-> 0]
    /\ ppc = "idle"
    /\ ei = 0
    /\ em = 0
    /\ last_match = <<>>
    /\ new_genomes = <<>>
    /\ before = <<>>
    /\ played = <<>>
    /\ had_fitness = FALSE
    /\ top_two = <<>>
    /\ GameIdle
    /\ FnIdle
    /\ MainIdle

\* evaluate without "g.fitness = 0.0"
KeepFitness(gs) == gs

\* evaluate: "for g in &mut self.genomes { g.fitness = 0.0; }"
ResetFitness(gs) == [n \in 1..Len(gs) |-> [gs[n] EXCEPT !.fitness = 0]]

\* evaluate is called: every fitness is reset
EvaluateBegin ==
    /\ ppc = "idle"
    /\ population' = [population EXCEPT !.genomes = ResetFitness(@)]
    /\ played' = <<>>
    /\ top_two' = <<>>
    /\ had_fitness' = (\E n \in DOMAIN population.genomes :
                           population.genomes[n].fitness # 0)
    /\ ppc' = "evaluate"
    /\ ei' = 0
    /\ em' = 0
    /\ last_match' = <<>>
    /\ before' = <<>>
    /\ UNCHANGED new_genomes
    /\ UNCHANGED <<gvars, fvars, mvars>>

\* evaluate: one match of genome ei against a drawn opponent
EvaluateMatch ==
    /\ ppc = "evaluate"
    /\ ei < POPULATION_SIZE
    /\ \E r \in 0..(POPULATION_SIZE - 2), res \in MatchResults :
           LET j == OpponentIndex(ei, r)
               mine == [population.genomes EXCEPT ![ei + 1].fitness = @ + res[1]]
           IN  /\ j + 1 \in DOMAIN population.genomes
               /\ population' = [population EXCEPT !.genomes =
                                     [mine EXCEPT ![j + 1].fitness = @ + res[2]]]
               /\ last_match' = <<ei, j>>
               /\ played' = Append(played, <<ei, j, res>>)
    /\ IF em + 1 < MATCHES_PER_EVAL
       THEN em' = em + 1 /\ ei' = ei
       ELSE em' = 0 /\ ei' = ei + 1
    /\ UNCHANGED <<ppc, new_genomes, before, had_fitness, top_two>>
    /\ UNCHANGED <<gvars, fvars, mvars>>

\* evaluate: the loops are done, best_fitness is set and evaluate returns
EvaluateEnd ==
    /\ ppc = "evaluate"
    /\ ei >= POPULATION_SIZE
    /\ population' = [population EXCEPT !.best_fitness = FoldMax(0, population.genomes)]
    /\ ppc' = "idle"
    /\ UNCHANGED <<ei, em, last_match, new_genomes, before, played, had_fitness,
                   top_two>>
    /\ UNCHANGED <<gvars, fvars, mvars>>

\* the loop test with <= for <
NeedsOffspringOffByOne(ng) == Len(ng) <= POPULATION_SIZE

\* a population LateGeneration generations on: mutation has moved weights up
\* to the limits 3.0 and -3.0 and next to them
LateGeneration == 6

LatePopulations ==
    {[n \in 1..POPULATION_SIZE |->
         [k \in 1..GENOME_SIZE |->
             LET r == (n + k) % 3
             IN  IF r = 0 THEN WEIGHT_LIMIT
                 ELSE IF r = 1 THEN -WEIGHT_LIMIT
                 ELSE WEIGHT_LIMIT - 1]]}

\* the Population as evolve left it at generation LateGeneration: every
\* fitness is 0 and best_fitness is what the last evaluate found
LateInit ==
    /\ \E ws \in LatePopulations :
           population = [genomes |-> [n \in 1..POPULATION_SIZE |->
                                         [weights |-> ws[n], fitness |-> 0]],
                         generation |-> LateGeneration,
                         best_fitness |-> 164025]
    /\ ppc = "idle"
    /\ ei = 0
    /\ em = 0
    /\ last_match = <<>>
    /\ new_genomes = <<>>
    /\ before = <<>>
    /\ played = <<>>
    /\ had_fitness = FALSE
    /\ top_two = <<>>
    /\ GameIdle
    /\ FnIdle
    /\ MainIdle

\* the generations the model starts from
StartGenerations == {0, LateGeneration}

\* evolve: "while new_genomes.len() < POPULATION_SIZE"
NeedsOffspring(ng) == Len(ng) < POPULATION_SIZE

\* evolve is called: the genomes are sorted in place and the elites copied
EvolveBegin ==
    /\ ppc = "idle"
    /\ \E g0 \in StartGenerations :
           g0 <= population.generation /\ population.generation < g0 + MaxGenerations
    /\ before' = population.genomes
    /\ LET sorted == sort_by(population.genomes)
       IN  /\ population' = [population EXCEPT !.genomes = sorted]
           /\ new_genomes' = [i \in 1..ELITE_COUNT |-> [sorted[i] EXCEPT !.fitness = 0]]
    /\ ppc' = "evolve"
    /\ played' = <<>>
    /\ had_fitness' = FALSE
    /\ top_two' = <<>>
    /\ UNCHANGED <<ei, em, last_match>>
    /\ UNCHANGED <<gvars, fvars, mvars>>

\* evolve: the genomes tournament_select can return, over the indices it
\* can draw
TournamentWinners(gs) ==
    {tournament_select(gs, picks) :
         picks \in [1..TOURNAMENT_SIZE -> 1..Len(gs)]}

\* evolve: the child before mutation, over the parents selected, the outcome
\* of rng.gen::<f32>() < CROSSOVER_RATE and the crossover point
Recombined(gs) ==
    LET parents == TournamentWinners(gs)
    IN  {[parent1 EXCEPT !.fitness = 0] : parent1 \in parents}
        \cup {crossover(parent1, parent2, point) :
                  parent1 \in parents, parent2 \in parents,
                  point \in 0..(GENOME_SIZE - 1)}

\* evolve: one offspring is selected, recombined, mutated and pushed
EvolveChild ==
    /\ ppc = "evolve"
    /\ NeedsOffspring(new_genomes)
    /\ \E child \in Recombined(population.genomes),
          plan \in MutationPlans(MUTATION_STRENGTH) :
           new_genomes' = Append(new_genomes, mutate(child, plan))
    /\ UNCHANGED <<population, ppc, ei, em, last_match, before, played, had_fitness,
                   top_two>>
    /\ UNCHANGED <<gvars, fvars, mvars>>

\* evolve: the new generation replaces the old one and evolve returns
EvolveEnd ==
    /\ ppc = "evolve"
    /\ ~NeedsOffspring(new_genomes)
    /\ population' = [population EXCEPT !.genomes = new_genomes,
                                        !.generation = @ + 1]
    /\ ppc' = "idle"
    /\ UNCHANGED <<ei, em, last_match, new_genomes, before, played, had_fitness,
                   top_two>>
    /\ UNCHANGED <<gvars, fvars, mvars>>

\* get_top_two that sorts self.genomes and not a list of references to them
GenomesSortedInPlace(gs) == sort_by(gs)

\* get_top_two takes &self and sorts a Vec<&Genome>: self.genomes after it
GenomesAfterTopTwo(gs) == gs

\* get_top_two: clones of the first two references of the sorted list
get_top_two(gs) ==
    LET sorted == sort_by(gs)
    IN  <<sorted[1], sorted[2]>>

\* get_top_two is called and returns
GetTopTwo ==
    /\ ppc = "idle"
    /\ top_two' = get_top_two(population.genomes)
    /\ population' = [population EXCEPT !.genomes = GenomesAfterTopTwo(@)]
    /\ UNCHANGED <<ppc, ei, em, last_match, new_genomes, before, played, had_fitness>>
    /\ UNCHANGED <<gvars, fvars, mvars>>

PopNext ==
    \/ EvaluateBegin
    \/ EvaluateMatch
    \/ EvaluateEnd
    \/ EvolveBegin
    \/ EvolveChild
    \/ EvolveEnd
    \/ GetTopTwo

SpecPop == (PopInit \/ LateInit) /\ [][PopNext]_vars

(* ------------------------------------------------ functions on their own *)
\* the weights of the genomes a caller passes, in tenths: inside the clamp
\* range and at both of its ends
FnWeights == {-30, -10, 9, 30}

\* the fitness of the genomes a caller passes, in thousandths
FnFitness == {-13785, 0, 164025}

FnGenomes ==
    {[weights |-> ws, fitness |-> f] :
         ws \in [1..GENOME_SIZE -> FnWeights], f \in FnFitness}

FnInit ==
    /\ call = [op |-> "none"]
    /\ GameIdle
    /\ PopIdle
    /\ MainIdle

\* Genome::crossover(a, b, rng)
CallCrossover ==
    /\ call.op = "none"
    /\ \E a \in FnGenomes, b \in FnGenomes, point \in 0..(GENOME_SIZE - 1) :
           call' = [op |-> "crossover", a |-> a, b |-> b, point |-> point,
                    out |-> crossover(a, b, point)]
    /\ UNCHANGED <<gvars, pvars, mvars>>

\* the rates and strengths a caller passes to mutate: rate 0, MUTATION_RATE
\* and 1 in hundredths, strength MUTATION_STRENGTH and 1.0 in tenths
FnRates == {0, MUTATION_RATE, 100}

FnStrengths == {MUTATION_STRENGTH, 10}

\* g.mutate(rate, strength, rng)
CallMutate ==
    /\ call.op = "none"
    /\ \E g \in FnGenomes, rate \in FnRates, strength \in FnStrengths :
           \E plan \in MutationPlansAt(rate, strength) :
               call' = [op |-> "mutate", g |-> g, rate |-> rate,
                        strength |-> strength, out |-> mutate(g, plan)]
    /\ UNCHANGED <<gvars, pvars, mvars>>

\* f32 values are counted in units of 2^-14 where the rounding of f32
\* arithmetic matters: F32Unit units make 1.0
F32Unit == 16384

\* an f32 has a significand of 24 bits
F32Significand == 16777216

RECURSIVE F32Ulp(_)
\* the distance between neighbouring f32 values at magnitude n, in units
F32Ulp(n) == IF n < F32Significand THEN 1 ELSE 2 * F32Ulp(n \div 2)

\* the f32 nearest to n >= 0, ties to the even significand
F32RoundAbs(n) ==
    LET u  == F32Ulp(n)
        lo == (n \div u) * u
        r  == n - lo
    IN  IF 2 * r < u THEN lo
        ELSE IF 2 * r > u THEN lo + u
        ELSE IF (lo \div u) % 2 = 0 THEN lo ELSE lo + u

\* the result of an f32 operation whose exact value is n
F32Round(n) == IF n >= 0 THEN F32RoundAbs(n) ELSE -F32RoundAbs(-n)

\* game.rs wrap on f32: both % are exact (fmod), the + rounds
wrap_f32(val, max) == Rem(F32Round(Rem(val, max) + max), max)

\* the arena sizes wrap is called with, in units
WrapMaxes == {ARENA_WIDTH * F32Unit, ARENA_HEIGHT * F32Unit}

\* values up to WrapLaps times max away from 0 are wrapped
WrapLaps == 2

\* the values next to a multiple of max, and in the middle between two
WrapOffsets(max) == {-3, -1, 0, 1, 3, max \div 2}

\* the f32 values wrap is called with: negative, zero, positive, multiples
\* of max and their neighbours
WrapValues(max) ==
    {v \in {k * max + e : k \in (-WrapLaps)..WrapLaps, e \in WrapOffsets(max)} :
        F32Round(v) = v}

\* wrap(val, max), and wrap of what it returned
CallWrap ==
    /\ call.op = "none"
    /\ \E max \in WrapMaxes :
           \E val \in WrapValues(max) :
               call' = [op |-> "wrap", val |-> val, max |-> max,
                        out |-> wrap_f32(val, max),
                        again |-> wrap_f32(wrap_f32(val, max), max)]
    /\ UNCHANGED <<gvars, pvars, mvars>>

\* the coordinates toroidal_diff is called with: wrapped positions, in tenths
TorPositions(max) == {0, 1, max \div 4, max \div 2, (3 * max) \div 4, max - 1}

\* toroidal_diff(a, b, max)
CallToroidalDiff ==
    /\ call.op = "none"
    /\ \E max \in {W, H} :
           \E a \in TorPositions(max), b \in TorPositions(max) :
               call' = [op |-> "toroidal_diff", a |-> a, b |-> b, max |-> max,
                        out |-> toroidal_diff(a, b, max)]
    /\ UNCHANGED <<gvars, pvars, mvars>>

\* genomes whose weight vector is one shorter or one longer than GENOME_SIZE
MismatchGenomes ==
    {[weights |-> [k \in 1..len |-> w], fitness |-> 0] :
        len \in {GENOME_SIZE - 1, GENOME_SIZE + 1}, w \in RandomWeights}

\* crossover, the loop "for i in 0..GENOME_SIZE": an index past the end of
\* the vector it is read from panics
crossover_panics(a, b, point) ==
    \E i \in 0..(GENOME_SIZE - 1) :
        IF i < point THEN i >= Len(a.weights) ELSE i >= Len(b.weights)

\* Genome::crossover(a, b, rng) where a or b has a wrong length
CallCrossoverMismatch ==
    /\ call.op = "none"
    /\ \E a \in FnGenomes \cup MismatchGenomes, b \in FnGenomes \cup MismatchGenomes,
          point \in 0..(GENOME_SIZE - 1) :
           /\ a \in MismatchGenomes \/ b \in MismatchGenomes
           /\ call' = [op |-> "crossover_mismatch", a |-> a, b |-> b, point |-> point,
                        panicked |-> crossover_panics(a, b, point),
                        out |-> IF crossover_panics(a, b, point) THEN <<>>
                                ELSE <<crossover(a, b, point)>>]
    /\ UNCHANGED <<gvars, pvars, mvars>>

\* mutate, "for w in &mut self.weights": one draw per weight the genome has
MutationPlansFor(g, rate, strength) ==
    [1..Len(g.weights) -> {IF Hit(u, rate) THEN <<d>> ELSE <<>> :
                              u \in UnitDraws, d \in Deltas(strength)}]

\* g.mutate(rate, strength, rng) where g has a wrong length: nothing in
\* mutate indexes or measures the vector, so it returns
CallMutateMismatch ==
    /\ call.op = "none"
    /\ \E g \in MismatchGenomes :
           \E plan \in MutationPlansFor(g, MUTATION_RATE, MUTATION_STRENGTH) :
               call' = [op |-> "mutate_mismatch", g |-> g, panicked |-> FALSE,
                        out |-> <<mutate(g, plan)>>]
    /\ UNCHANGED <<gvars, pvars, mvars>>

FnNext ==
    \/ CallCrossover
    \/ CallMutate
    \/ CallWrap
    \/ CallToroidalDiff
    \/ CallCrossoverMismatch
    \/ CallMutateMismatch

SpecFn == FnInit /\ [][FnNext]_vars

(* --------------------------------------------------------------- driver *)
\* main.rs END_DELAY, in seconds
END_DELAY == 2

\* main: dt = get_frame_time().min(1.0 / 30.0)
FRAME_CAP_DIV == 30

\* a frame takes 1/DtSteps .. DtSteps/DtSteps of the longest dt
DtSteps == 2

\* END_DELAY in units of 1 / (FRAME_CAP_DIV * DtSteps) s
EndDelayUnits == END_DELAY * FRAME_CAP_DIV * DtSteps

\* the background tasks evolve up to this generation
MaxShownGenerations == 3

\* Option<JoinHandle>: None, or Some(id of the thread)
None == 0

\* a Population that was moved into spawn_evolution
PopMoved == <<>>

\* The driver sees a Population as: its generation, what its fitness
\* fields hold ("scored": set by a whole evaluate of these genomes;
\* "stale": left by evolve, elites scored and offspring 0; "partial":
\* inside evaluate), and the generation best_fitness was computed for.
\* Population::new and the first evaluate, main lines 42-43
FirstPopulation == [generation |-> 0, fitness |-> "scored", best_for |-> 0]

\* the clones get_top_two returns, as the driver sees them
TopOf(pop) == [generation |-> pop.generation, fitness |-> pop.fitness]

\* the closure of spawn_evolution, run in some other order
WorkerStepsTopFirst == <<"evolve", "get_top_two", "evaluate">>

\* the closure of spawn_evolution: evolve, evaluate, get_top_two
WorkerSteps == <<"evolve", "evaluate", "get_top_two">>

\* thread::spawn(move || ...): the thread owns pop and stands before step 1
NewTask(id, pop) ==
    [id |-> id, pop |-> pop, top |-> <<>>, at |-> 1, mid |-> FALSE]

\* JoinHandle::is_finished: the closure returned
Finished(t) == t.at > Len(WorkerSteps)

\* the thread enters its next call
Enter(t) ==
    LET step == WorkerSteps[t.at]
    IN  [t EXCEPT !.mid = TRUE,
                  !.pop = IF step = "evaluate"
                          THEN [@ EXCEPT !.fitness = "partial"]
                          ELSE @]

\* the call the thread is in returns
Leave(t) ==
    LET step == WorkerSteps[t.at]
    IN  [t EXCEPT
            !.mid = FALSE,
            !.at = @ + 1,
            !.pop = IF step = "evolve"
                    THEN [@ EXCEPT !.generation = @ + 1, !.fitness = "stale"]
                    ELSE IF step = "evaluate"
                    THEN [@ EXCEPT !.fitness = "scored",
                                   !.best_for = t.pop.generation]
                    ELSE @,
            !.top = IF step = "get_top_two" THEN TopOf(t.pop) ELSE @]

RECURSIVE RunToEnd(_)
\* JoinHandle::join: waits until the closure returned
RunToEnd(t) ==
    IF Finished(t) THEN t
    ELSE IF t.mid THEN RunToEnd(Leave(t))
    ELSE RunToEnd(Enter(t))

\* the thread behind a handle
TaskOf(h, ts) == CHOOSE t \in ts : t.id = h

\* evo_done computed without asking is_finished
EvoDoneAnyHandle(h, ts) == h # None

\* main lines 75-77: evo_handle.as_ref().map_or(false, |h| h.is_finished())
EvoDone(h, ts) == h # None /\ Finished(TaskOf(h, ts))

\* main after lines 42-47: the population is scored, its top two are taken
MainInit ==
    /\ app = [pc |-> "start", pop |-> FirstPopulation, evo_handle |-> None,
              spawned |-> 0, current_gen |-> FirstPopulation.generation,
              current_best |-> FirstPopulation.best_for,
              showcase |-> TopOf(FirstPopulation),
              match_over |-> FALSE, end_timer |-> EndDelayUnits,
              waited |-> FALSE]
    /\ tasks = {}
    /\ GameIdle
    /\ PopIdle
    /\ FnIdle

\* main lines 51-57: the first background evolution and the first match
MainSpawn ==
    /\ app.pc = "start"
    /\ tasks' = tasks \cup {NewTask(app.spawned + 1, app.pop)}
    /\ app' = [app EXCEPT !.pc = "loop", !.pop = PopMoved,
                          !.evo_handle = app.spawned + 1,
                          !.spawned = @ + 1,
                          !.match_over = FALSE,
                          !.end_timer = EndDelayUnits]
    /\ UNCHANGED <<gvars, pvars, fvars>>

\* a frame of a running showcase match, lines 62-68: update may end it
FrameStep ==
    /\ app.pc = "loop"
    /\ ~app.match_over
    /\ \E over \in BOOLEAN : app' = [app EXCEPT !.match_over = over]
    /\ UNCHANGED tasks
    /\ UNCHANGED <<gvars, pvars, fvars>>

\* a frame after the match ended, the delay not over: lines 70-73
FrameWait ==
    /\ app.pc = "loop"
    /\ app.match_over
    /\ \E dt \in 1..DtSteps :
           /\ app.end_timer - dt > 0
           /\ app' = [app EXCEPT !.end_timer = @ - dt]
    /\ UNCHANGED tasks
    /\ UNCHANGED <<gvars, pvars, fvars>>

\* the frame in which the delay runs out, lines 70-96: the swap when the
\* background evolution is done, and a new match either way
FrameRestart ==
    /\ app.pc = "loop"
    /\ app.match_over
    /\ \E dt \in 1..DtSteps :
           /\ app.end_timer - dt <= 0
           /\ IF EvoDone(app.evo_handle, tasks)
              THEN LET h      == TaskOf(app.evo_handle, tasks)
                       joined == RunToEnd(h)
                   IN  /\ tasks' = (tasks \ {h})
                                \cup {NewTask(app.spawned + 1, joined.pop)}
                       /\ app' = [app EXCEPT
                              !.current_gen = joined.pop.generation,
                              !.current_best = joined.pop.best_for,
                              !.showcase = joined.top,
                              !.evo_handle = app.spawned + 1,
                              !.spawned = @ + 1,
                              !.waited = @ \/ ~Finished(h),
                              !.match_over = FALSE,
                              !.end_timer = EndDelayUnits]
              ELSE /\ tasks' = tasks
                   /\ app' = [app EXCEPT !.match_over = FALSE,
                                         !.end_timer = EndDelayUnits]
    /\ UNCHANGED <<gvars, pvars, fvars>>

\* a background thread enters evolve, evaluate or get_top_two
WorkerEnter ==
    /\ \E t \in tasks :
           /\ ~Finished(t)
           /\ ~t.mid
           /\ WorkerSteps[t.at] = "evolve" => t.pop.generation < MaxShownGenerations
           /\ tasks' = (tasks \ {t}) \cup {Enter(t)}
    /\ UNCHANGED app
    /\ UNCHANGED <<gvars, pvars, fvars>>

\* the call a background thread is in returns
WorkerLeave ==
    /\ \E t \in tasks :
           /\ ~Finished(t)
           /\ t.mid
           /\ tasks' = (tasks \ {t}) \cup {Leave(t)}
    /\ UNCHANGED app
    /\ UNCHANGED <<gvars, pvars, fvars>>

MainNext ==
    \/ MainSpawn
    \/ FrameStep
    \/ FrameWait
    \/ FrameRestart
    \/ WorkerEnter
    \/ WorkerLeave

SpecMain == MainInit /\ [][MainNext]_vars

(* --------------------------------------------------------------- claims *)
AliveCount(s) == Cardinality({i \in {0, 1} : s.ships[i].alive})

\* the last update call started from a running state
LastCallRunning == calls > 0 /\ ~prev.match_over

\* the last update call started from a state that was already over
LastCallOver == calls > 0 /\ prev.match_over

\* C1: Over is terminal.  An update call on a state whose match_over is true
\* leaves match_over true, leaves both ships, the projectiles and the winner
\* as they were, and adds dt to time.
C1_OverIsTerminal ==
    LastCallOver =>
        /\ state.match_over
        /\ state.ships = prev.ships
        /\ state.projectiles = prev.projectiles
        /\ state.winner = prev.winner
        /\ state.time = prev.time + lastDt

\* C1 witness: update was called on a finished match that still holds a
\* projectile in flight, with thrust or fire requested
C1_Witness ==
    /\ LastCallOver
    /\ Len(prev.projectiles) > 0
    /\ lastDt > 0
    /\ \E i \in {0, 1} : prev.ships[i].alive /\ lastActs[i] # <<0, 0, 0, 0>>

\* C2: a winner i implies match_over, ship i alive and ship 1-i dead; there is
\* no winner while both ships are alive or both are dead; a winner once set is
\* the winner after every later update.
C2_WinnerInvariant ==
    /\ \A i \in state.winner :
           state.match_over /\ state.ships[i].alive /\ ~state.ships[1 - i].alive
    /\ AliveCount(state) # 1 => state.winner = {}
    /\ prev.winner # {} => state.winner = prev.winner

\* C2 witness: update was called on a state that already had a winner
C2_Witness == calls > 0 /\ prev.winner # {} /\ state.winner # {}

\* C3: after an update call on a fresh or running state, match_over holds
\* exactly when at most one ship is alive or time has reached MATCH_DURATION;
\* a state that is not over has both ships alive; a state that is over with
\* one ship alive has that ship as winner.
C3_OverExactly ==
    /\ LastCallRunning =>
           (state.match_over <=> (AliveCount(state) <= 1 \/ state.time >= MatchTicks))
    /\ ~state.match_over => AliveCount(state) = 2
    /\ \A i \in {0, 1} :
           state.match_over /\ state.ships[i].alive /\ ~state.ships[1 - i].alive
               => state.winner = {i}

\* C3 witness: the match ended on time, both ships alive, at exactly
\* MATCH_DURATION
C3_Witness ==
    /\ LastCallRunning
    /\ state.match_over
    /\ AliveCount(state) = 2
    /\ state.time = MatchTicks

\* C4: each owner has at most MAX_PROJECTILES_PER_SHIP projectiles in flight.
C4_ProjectileCap ==
    \A i \in {0, 1} : OwnProjectiles(state.projectiles, i) <= MAX_PROJECTILES_PER_SHIP

\* C4 witness: a ship with the fire signal set and its cooldown run out held
\* MAX_PROJECTILES_PER_SHIP projectiles, and the update fired none
C4_Witness ==
    /\ LastCallRunning
    /\ \E i \in {0, 1} :
           /\ prev.ships[i].alive
           /\ OwnProjectiles(prev.projectiles, i) = MAX_PROJECTILES_PER_SHIP
           /\ FireReady(lastActs[i][4], Max2(prev.ships[i].fire_cooldown - lastDt, 0))
           /\ state.ships[i].shots_fired = prev.ships[i].shots_fired

\* the ships of the last update call as they entered the collision step
BeforeCollision ==
    StepShip(StepShip([prev EXCEPT !.time = @ + lastDt], 0, lastDt, lastActs),
             1, lastDt, lastActs).ships

\* the collision step of the last update call changed a velocity
Exchanged ==
    /\ LastCallRunning
    /\ \E i \in {0, 1} :
           \/ CollideShips(BeforeCollision)[i].vx # BeforeCollision[i].vx
           \/ CollideShips(BeforeCollision)[i].vy # BeforeCollision[i].vy

SpeedSq(sh) == sh.vx * sh.vx + sh.vy * sh.vy

\* C5: every alive ship's speed is at most MAX_SHIP_SPEED, to one step of the
\* model's resolution.
C5_SpeedCap ==
    \A i \in {0, 1} :
        state.ships[i].alive => SpeedSq(state.ships[i]) <= (MaxSpeedQ + 1) * (MaxSpeedQ + 1)

\* C5 witness: the collision step exchanged velocity between two ships that
\* did not approach each other head-on, and one of them left it faster than
\* any ship gets by thrust alone
C5_Witness ==
    /\ Exchanged
    /\ \E i \in {0, 1} :
           /\ state.ships[i].alive
           /\ SpeedSq(state.ships[i]) > SpeedSq(BeforeCollision[i])
           /\ SpeedSq(state.ships[i]) > SpeedSq(BeforeCollision[1 - i])

\* the bounds of MatchResult.fitness in thousandths: the death penalty below,
\* and every bonus at its most above
FitnessFinite(f) == f >= -20 * Milli /\ f <= (100 + 50 + 30 + 10 + 20 + 15) * Milli

\* run_match between its first loop test and its return: the calls of update
\* are the loop's iterations, none is made on a finished match, and the
\* returned fitness values are within the bounds of the scoring formula
MatchLoopInv ==
    pc \in {"loop", "done"} =>
        /\ calls <= SIM_STEPS
        /\ calls = iter
        /\ calls > 0 => ~prev.match_over
        /\ pc = "done" => \A i \in {0, 1} : FitnessFinite(result[i])

\* C6: run_match terminates after at most SIM_STEPS calls of update, never
\* calls update on a state that is already over, and returns two finite
\* fitness values: every step of the loop either spends one of the SIM_STEPS
\* iterations or returns, the loop is left on the tick match_over becomes
\* true, and the MatchResult holds values within the scoring bounds.
C6_MatchTerminates ==
    /\ []MatchLoopInv
    /\ [][pc = "loop" =>
            \/ iter < SIM_STEPS /\ iter' = iter + 1 /\ pc' = "loop"
            \/ iter' = iter /\ pc' = "done"]_vars

\* C6 witness: run_match returned right after the tick that ended the match,
\* before SIM_STEPS iterations
C6_Witness ==
    /\ pc = "done"
    /\ state.match_over
    /\ ~prev.match_over
    /\ calls < SIM_STEPS

\* the population has its full size, also while evolve is at work on the
\* next generation
PopulationSized == ppc # "off" => Len(population.genomes) = POPULATION_SIZE

\* the step on which an evolve call returns
EvolveReturns == ppc = "evolve" /\ ppc' = "idle"

\* C8: the population holds exactly POPULATION_SIZE genomes after
\* Population::new and after any sequence of evaluate and evolve calls; the
\* return of evolve adds exactly 1 to generation and leaves every genome with
\* fitness 0; no other step, and so no step of evaluate, changes generation
\* or the number of genomes.
C8_PopulationSize ==
    /\ []PopulationSized
    /\ [][/\ EvolveReturns =>
                /\ population'.generation = population.generation + 1
                /\ \A n \in DOMAIN population'.genomes :
                       population'.genomes[n].fitness = 0
          /\ ~EvolveReturns =>
                /\ population'.generation = population.generation
                /\ Len(population'.genomes) = Len(population.genomes)]_vars

\* C8 witness: evolve has just returned on a population evaluate had scored
C8_Witness ==
    /\ ppc = "idle"
    /\ population.generation = 1
    /\ before # <<>>
    /\ \E n \in DOMAIN before : before[n].fitness # 0
    /\ Len(population.genomes) = POPULATION_SIZE

\* the first ELITE_COUNT genomes of new carry the weights of ELITE_COUNT
\* different genomes of old, and no genome of old left out of these has a
\* strictly higher fitness than one of them
Elitism(old, new) ==
    \E f \in [1..ELITE_COUNT -> DOMAIN old] :
        /\ \A k1, k2 \in 1..ELITE_COUNT : f[k1] = f[k2] => k1 = k2
        /\ \A k \in 1..ELITE_COUNT : new[k].weights = old[f[k]].weights
        /\ \A n \in DOMAIN old, k \in 1..ELITE_COUNT :
               (\A k2 \in 1..ELITE_COUNT : f[k2] # n) =>
                   old[n].fitness <= old[f[k]].fitness

\* C9: elitism.  Once evolve has copied the elites, and when it has
\* returned, the first ELITE_COUNT genomes of the new generation have the
\* weight vectors, unchanged, of ELITE_COUNT genomes whose fitness was
\* maximal in the population the call started from.
C9_Elitism ==
    /\ ppc = "evolve" => Elitism(before, new_genomes)
    /\ (ppc = "idle" /\ before # <<>>) => Elitism(before, population.genomes)

\* C9 witness: evolve has returned, and the genome that was last before the
\* call had a strictly higher fitness than the one that was first
C9_Witness ==
    /\ ppc = "idle"
    /\ before # <<>>
    /\ before[Len(before)].fitness > before[1].fitness
    /\ population.genomes[1].weights = before[Len(before)].weights
    /\ population.genomes[1].weights # before[1].weights

\* C10: every match of evaluate pairs genome i with an opponent index j in
\* 0..POPULATION_SIZE-1 other than i, whatever value the random source
\* returns, and the values it can return give every index other than i.
C10_NoSelfMatch ==
    /\ last_match # <<>> =>
           /\ last_match[2] \in 0..(POPULATION_SIZE - 1)
           /\ last_match[2] # last_match[1]
    /\ \A i \in 0..(POPULATION_SIZE - 1) :
           {OpponentIndex(i, r) : r \in 0..(POPULATION_SIZE - 2)}
               = (0..(POPULATION_SIZE - 1)) \ {i}

\* C10 witness: the draw returned i itself and the match was played against
\* the genome after i
C10_Witness ==
    /\ ppc = "evaluate"
    /\ last_match # <<>>
    /\ last_match[1] > 0
    /\ last_match[2] = last_match[1] + 1

\* the call that returned last is evaluate
EvaluateReturned == ppc = "idle" /\ played # <<>>

\* what genome n (counted from 0) earns in the matches ms: fitness[0] of the
\* matches it played as first genome, fitness[1] of those it was drawn for
RECURSIVE Earned(_, _)
Earned(n, ms) ==
    IF ms = <<>> THEN 0
    ELSE (IF Head(ms)[1] = n THEN Head(ms)[3][1] ELSE 0)
         + (IF Head(ms)[2] = n THEN Head(ms)[3][2] ELSE 0)
         + Earned(n, Tail(ms))

\* C11: when evaluate has returned, it has run exactly POPULATION_SIZE *
\* MATCHES_PER_EVAL matches, every genome was first genome in exactly
\* MATCHES_PER_EVAL of them, and every genome's fitness is the sum of what
\* it earned in the matches of this round it took part in, whatever fitness
\* it had when evaluate was called.
C11_FitnessAdditive ==
    EvaluateReturned =>
        /\ Len(played) = POPULATION_SIZE * MATCHES_PER_EVAL
        /\ \A n \in 0..(POPULATION_SIZE - 1) :
               /\ Cardinality({k \in DOMAIN played : played[k][1] = n})
                      = MATCHES_PER_EVAL
               /\ population.genomes[n + 1].fitness = Earned(n, played)

\* C11 witness: evaluate has returned from a call made on genomes that held
\* the fitness of an earlier round, and one genome was drawn as opponent in
\* two matches of this round
C11_Witness ==
    /\ EvaluateReturned
    /\ had_fitness
    /\ \E n \in 0..(POPULATION_SIZE - 1) :
           /\ Cardinality({k \in DOMAIN played : played[k][2] = n}) >= 2
           /\ population.genomes[n + 1].fitness = Earned(n, played)

C13_Crossover ==
    call.op = "crossover" =>
        /\ call.out.fitness = 0
        /\ Len(call.out.weights) = GENOME_SIZE
        /\ Len(call.out.weights) = Len(call.a.weights)
        /\ Len(call.out.weights) = Len(call.b.weights)
        /\ \E c \in 0..(GENOME_SIZE - 1) :
               \A i \in 0..(GENOME_SIZE - 1) :
                   call.out.weights[i + 1] =
                       IF i < c THEN call.a.weights[i + 1] ELSE call.b.weights[i + 1]

\* C13 witness: a crossover of two scored parents that differ at every
\* index, cut after the first weight
C13_Witness ==
    /\ call.op = "crossover"
    /\ call.point = 1
    /\ call.a.fitness # 0
    /\ \A i \in 1..GENOME_SIZE : call.a.weights[i] # call.b.weights[i]
    /\ call.out.weights[1] = call.a.weights[1]
    /\ call.out.weights[GENOME_SIZE] = call.b.weights[GENOME_SIZE]
    /\ call.out.fitness = 0

\* w + d clamped to [-3.0, 3.0], in tenths
ClampedSum(w, d) ==
    IF w + d < -WEIGHT_LIMIT THEN -WEIGHT_LIMIT
    ELSE IF w + d > WEIGHT_LIMIT THEN WEIGHT_LIMIT ELSE w + d

\* C14: mutate with rate 0 leaves every weight as it was; with rate 1 every
\* weight w becomes clamp(w + d, -3, 3) for some d in [-strength, strength];
\* whatever the rate, the number of weights and the fitness are unchanged.
C14_Mutate ==
    call.op = "mutate" =>
        /\ Len(call.out.weights) = Len(call.g.weights)
        /\ call.out.fitness = call.g.fitness
        /\ call.rate = 0 => call.out.weights = call.g.weights
        /\ call.rate = 100 =>
               \A k \in DOMAIN call.g.weights :
                   \E d \in (-call.strength)..call.strength :
                       call.out.weights[k] = ClampedSum(call.g.weights[k], d)

\* C14 witness: mutate with rate 1 on a scored genome, where one weight was
\* at the lower limit and stayed there and another moved up
C14_Witness ==
    /\ call.op = "mutate"
    /\ call.rate = 100
    /\ call.g.fitness # 0
    /\ \E k1, k2 \in DOMAIN call.g.weights :
           /\ call.g.weights[k1] = -WEIGHT_LIMIT
           /\ call.out.weights[k1] = -WEIGHT_LIMIT
           /\ call.out.weights[k2] = call.g.weights[k2] + call.strength - 1

\* the pair holds two genomes of gs at different positions, the first with
\* the most fitness of all and the second with the most of the others
TopTwoOf(pair, gs) ==
    \E p1, p2 \in DOMAIN gs :
        /\ p1 # p2
        /\ pair[1] = gs[p1]
        /\ pair[2] = gs[p2]
        /\ \A n \in DOMAIN gs : gs[n].fitness <= gs[p1].fitness
        /\ \A n \in DOMAIN gs \ {p1} : gs[n].fitness <= gs[p2].fitness

\* C15: get_top_two only reads: the population (genomes in their order with
\* weights and fitness, generation, best_fitness) is after the call what it
\* was before, and the call returns copies of two genomes at different
\* positions, the first with maximal fitness in the population and the
\* second with maximal fitness among the others.
C15_GetTopTwo ==
    /\ [](top_two # <<>> => TopTwoOf(top_two, population.genomes))
    /\ [][(ppc = "idle" /\ ppc' = "idle") =>
              (population' = population /\ top_two' # <<>>)]_vars

\* C15 witness: get_top_two returned on a scored population whose best
\* genome is not the first, and the two copies differ in fitness
C15_Witness ==
    /\ top_two # <<>>
    /\ EvaluateReturned
    /\ top_two[1] # population.genomes[1]
    /\ top_two[1].fitness > top_two[2].fitness
    /\ top_two[1].fitness = population.best_fitness

\* wrap returned a value of [0, max)
WrapInRange == call.op = "wrap" => (0 <= call.out /\ call.out < call.max)

\* C16: for every value v and every max > 0, wrap(v, max) lies in [0, max)
\* and wrap is idempotent: wrap(wrap(v, max), max) = wrap(v, max).
C16_WrapIdempotent ==
    call.op = "wrap" =>
        /\ 0 <= call.out /\ call.out < call.max
        /\ call.again = call.out

\* C17: for all a, b and max > 0, toroidal_diff(a, b, max) lies in the
\* half-open interval (-max/2, max/2], the cases a - b = max/2 and
\* a - b = -max/2 included.
C17_ToroidalDiffRange ==
    call.op = "toroidal_diff" =>
        (-call.max < 2 * call.out /\ 2 * call.out <= call.max)

\* what the render loop shows: generation, best fitness, showcase genomes
Displayed(a) == <<a.current_gen, a.current_best, a.showcase>>

\* a population on which evolve and evaluate both ran to their end
Complete(pop) == pop.fitness = "scored" /\ pop.best_for = pop.generation

\* C18: the showcase genomes, the displayed generation and the displayed
\* best fitness are replaced only by the result of a background task that
\* finished both evolve and evaluate on the population; while a background
\* task runs the render loop holds no reference to that population and
\* never observes it partially evolved or partially evaluated.
C18_PublishComplete ==
    /\ [](app.pc = "loop" =>
            /\ app.pop = PopMoved
            /\ app.showcase = [generation |-> app.current_gen,
                               fitness |-> "scored"]
            /\ app.current_best = app.current_gen)
    /\ [][(app.pc = "loop" /\ Displayed(app') # Displayed(app)) =>
              \E t \in tasks :
                  /\ Finished(t) /\ ~t.mid
                  /\ Complete(t.pop)
                  /\ t.top = TopOf(t.pop)
                  /\ Displayed(app') = <<t.pop.generation, t.pop.best_for, t.top>>]_vars

\* C18 witness: the loop shows generation 2 of a task that finished while
\* the next task is inside evaluate, its population partially scored
C18_Witness ==
    /\ app.pc = "loop"
    /\ app.current_gen = 2
    /\ app.showcase.generation = 2
    /\ \E t \in tasks : t.mid /\ t.pop.fitness = "partial" /\ t.pop.generation = 3

\* C19: at every point of the render loop at most one background task
\* exists; join is called only on a task that reports finished; the
\* population a finished task returned is the one handed to the next task,
\* so the displayed generation grows by exactly 1 at each swap; and a swap
\* happens only between showcase matches, never during a running one.
C19_SingleSlot ==
    /\ [](/\ Cardinality(tasks) <= 1
          /\ \A t \in tasks : t.id = app.evo_handle
          /\ app.pc = "loop" => ~app.waited)
    /\ [][(app.pc = "loop" /\ app'.evo_handle # app.evo_handle) =>
              /\ app.match_over /\ ~app'.match_over
              /\ app'.end_timer = EndDelayUnits
              /\ app'.current_gen = app.current_gen + 1
              /\ \E t \in tasks :
                     /\ t.id = app.evo_handle
                     /\ Finished(t)
                     /\ t.pop.generation = app'.current_gen
                     /\ tasks' = {NewTask(app'.evo_handle, t.pop)}]_vars
    /\ [][(app.pc = "loop" /\ app'.evo_handle = app.evo_handle) =>
              Displayed(app') = Displayed(app)]_vars

\* C19 witness: the second swap just happened: generation 2 is shown, a new
\* match starts and the third task holds the population of generation 2
C19_Witness ==
    /\ app.pc = "loop"
    /\ app.current_gen = 2
    /\ app.spawned = 3
    /\ ~app.match_over
    /\ app.end_timer = EndDelayUnits
    /\ tasks = {NewTask(3, [generation |-> 2, fitness |-> "scored", best_for |-> 2])}

\* the ships and the projectiles of the last update call as they entered
\* "Collision detection"
ShipsAtDetection == CollideShips(BeforeCollision)

ProjectilesAtDetection ==
    MoveProjectiles(
        StepShip(StepShip([prev EXCEPT !.time = @ + lastDt], 0, lastDt, lastActs),
                 1, lastDt, lastActs).projectiles,
        lastDt)

\* the distance from a to b along one axis of the torus
AxisDistance(a, b, max) ==
    LET d == IF a >= b THEN a - b ELSE b - a
    IN  IF d <= max - d THEN d ELSE max - d

\* projectile p is within SHIP_RADIUS + PROJECTILE_RADIUS of ship sh
WithinHitRadius(p, sh) ==
    LET dx == AxisDistance(p.x, sh.x, W)
        dy == AxisDistance(p.y, sh.y, H)
        r  == (SHIP_RADIUS + PROJECTILE_RADIUS) * Q
    IN  dx * dx + dy * dy < r * r

\* the ships the last update call killed
Killed == {i \in {0, 1} : prev.ships[i].alive /\ ~state.ships[i].alive}

\* seq without the elements at the indices of gone
Without(seq, gone) ==
    LET F[k \in 0..Len(seq)] ==
            IF k = 0 THEN <<>>
            ELSE IF k \in gone THEN F[k - 1] ELSE Append(F[k - 1], seq[k])
    IN  F[Len(seq)]

\* C20: a ship's alive flag turns false only in an update in which a
\* projectile of the other ship is within SHIP_RADIUS + PROJECTILE_RADIUS of
\* it; that projectile is removed in the same update and its owner's
\* hits_scored grows by exactly 1; no projectile kills or is consumed by its
\* own owner; and an alive flag never returns to true.
C20_KillByEnemyProjectile ==
    /\ [](LastCallRunning =>
            /\ \E gone \in SUBSET DOMAIN ProjectilesAtDetection :
                   /\ Cardinality(gone) = Cardinality(Killed)
                   /\ \A i \in Killed : \E k \in gone :
                          /\ ProjectilesAtDetection[k].owner = 1 - i
                          /\ WithinHitRadius(ProjectilesAtDetection[k],
                                             ShipsAtDetection[i])
                   /\ state.projectiles = Without(ProjectilesAtDetection, gone)
            /\ \A i \in {0, 1} :
                   state.ships[i].hits_scored =
                       prev.ships[i].hits_scored + (IF 1 - i \in Killed THEN 1 ELSE 0))
    /\ [][\A i \in {0, 1} : ~state.ships[i].alive => ~state'.ships[i].alive]_vars

\* C20 witness: the last update killed a ship by a projectile of the other
\* ship, while a projectile of the victim and another projectile of the
\* shooter stayed in the collection
C20_Witness ==
    /\ LastCallRunning
    /\ \E i \in Killed :
           /\ state.ships[1 - i].alive
           /\ state.ships[1 - i].hits_scored = 1
           /\ \E k \in DOMAIN state.projectiles : state.projectiles[k].owner = i
           /\ \E k \in DOMAIN state.projectiles : state.projectiles[k].owner = 1 - i

\* the projectiles of the other ship within the hit radius of ship i at the
\* entry of "Collision detection", by index
Reaching(i) ==
    {k \in DOMAIN ProjectilesAtDetection :
        /\ ProjectilesAtDetection[k].owner = 1 - i
        /\ WithinHitRadius(ProjectilesAtDetection[k], ShipsAtDetection[i])}

\* the projectile that registers the hit on ship i: the first that reaches it
Registered(i) == CHOOSE k \in Reaching(i) : \A j \in Reaching(i) : k <= j

\* the last update call killed both ships
DoubleDeath == LastCallRunning /\ Killed = {0, 1}

\* C21: when a projectile of each owner hits the opposing ship in one tick,
\* the removal deletes exactly the two projectiles that registered a hit and
\* keeps every other projectile, in its order and with its fields; the
\* state then has match_over true and no winner.
C21_DoubleDeathRemoval ==
    DoubleDeath =>
        /\ Reaching(0) # {} /\ Reaching(1) # {}
        /\ state.projectiles =
               Without(ProjectilesAtDetection, {Registered(0), Registered(1)})
        /\ Len(state.projectiles) = Len(ProjectilesAtDetection) - 2
        /\ state.match_over
        /\ state.winner = {}

\* C21 witness: both ships died in one update while other projectiles were
\* in flight behind the two that hit
C21_Witness ==
    /\ DoubleDeath
    /\ Len(state.projectiles) >= 2
    /\ \E k \in DOMAIN ProjectilesAtDetection :
           k > Registered(0) /\ k > Registered(1)

\* ship i's cooldown after the decrement of the last update call
CooldownAfter(i) == Max2(prev.ships[i].fire_cooldown - lastDt, 0)

\* the conditions under which the last update call lets ship i shoot
MayFire(i) ==
    /\ ~prev.match_over
    /\ prev.ships[i].alive
    /\ lastActs[i][4] > Milli \div 2
    /\ CooldownAfter(i) = 0
    /\ OwnProjectiles(prev.projectiles, i) < MAX_PROJECTILES_PER_SHIP

\* the projectiles of the last update call after its ship loop
ProjectilesAfterShips ==
    IF prev.match_over THEN prev.projectiles
    ELSE StepShip(StepShip([prev EXCEPT !.time = @ + lastDt], 0, lastDt, lastActs),
                  1, lastDt, lastActs).projectiles

\* the projectiles ship i pushed in the last update call
Spawned(i) ==
    OwnProjectiles(ProjectilesAfterShips, i) - OwnProjectiles(prev.projectiles, i)

\* C22: in an update ship i spawns a projectile, counts the shot and resets
\* its cooldown to FIRE_COOLDOWN exactly when it is alive, the match runs,
\* fire > 0.5, its cooldown after this tick's decrement is 0 and it owns
\* fewer than MAX_PROJECTILES_PER_SHIP projectiles; otherwise shots_fired is
\* unchanged.  Two successive shots of a ship are at least FIRE_COOLDOWN
\* apart, and the cooldown stays within [0, FIRE_COOLDOWN].
C22_FireGating ==
    /\ [](\A i \in {0, 1} :
            /\ 0 <= state.ships[i].fire_cooldown
            /\ state.ships[i].fire_cooldown <= FireCooldownTicks
            /\ calls > 0 =>
                   IF MayFire(i)
                   THEN /\ Spawned(i) = 1
                        /\ state.ships[i].shots_fired = prev.ships[i].shots_fired + 1
                        /\ state.ships[i].fire_cooldown = FireCooldownTicks
                   ELSE /\ Spawned(i) = 0
                        /\ state.ships[i].shots_fired = prev.ships[i].shots_fired)
    /\ [][\A i \in {0, 1} :
              (last_shot'[i] # last_shot[i] /\ last_shot[i] >= 0) =>
                  last_shot'[i] - last_shot[i] >= FireCooldownTicks]_vars

\* C22 witness: a ship that asked to fire all along shot again in the
\* update in which its cooldown ran out, and not in the update before
C22_Witness ==
    /\ LastCallRunning
    /\ \E i \in {0, 1} :
           /\ MayFire(i)
           /\ prev.ships[i].shots_fired >= 1
           /\ prev.ships[i].fire_cooldown > 0
           /\ last_shot[i] = state.time
           /\ state.ships[i].shots_fired = prev.ships[i].shots_fired + 1

\* the genome has GENOME_SIZE weights, each in [-3, 3]
WeightsBounded(g) ==
    /\ Len(g.weights) = GENOME_SIZE
    /\ \A k \in DOMAIN g.weights :
           -WEIGHT_LIMIT <= g.weights[k] /\ g.weights[k] <= WEIGHT_LIMIT

\* C23: after Population::new and after any sequence of evaluate and evolve
\* calls every genome of the population has exactly GENOME_SIZE weights and
\* every weight lies in [-3, 3], the weights inherited by cloning or
\* crossover and not touched by mutation included.
C23_WeightsBounded ==
    /\ \A n \in DOMAIN population.genomes : WeightsBounded(population.genomes[n])
    /\ \A n \in DOMAIN new_genomes : WeightsBounded(new_genomes[n])

\* C23 witness: evolve returned a population with an offspring that is no
\* copy of a genome of before: it carries a weight at a limit and a weight
\* that mutation moved off a limit
C23_Witness ==
    /\ ppc = "idle"
    /\ before # <<>>
    /\ population.generation = LateGeneration + 1
    /\ \E n \in DOMAIN population.genomes :
           /\ \A m \in DOMAIN before : before[m].weights # population.genomes[n].weights
           /\ \E k \in 1..GENOME_SIZE : population.genomes[n].weights[k] = WEIGHT_LIMIT
           /\ \E k \in 1..GENOME_SIZE :
                  population.genomes[n].weights[k] = -WEIGHT_LIMIT + MUTATION_STRENGTH - 1

\* C24: crossover or mutate called with a genome whose weight vector is
\* shorter or longer than GENOME_SIZE fails loudly and does not return or
\* leave a genome, for every cut index.
C24_LengthGuard ==
    call.op \in {"crossover_mismatch", "mutate_mismatch"} =>
        (call.panicked /\ call.out = <<>>)

\* crossover fails for every cut index when b is the shorter genome
CrossoverShortSecondPanics ==
    (call.op = "crossover_mismatch" /\ Len(call.b.weights) < GENOME_SIZE) =>
        call.panicked

\* in the last update call two or more projectiles of the other ship
\* reached ship i, which was alive
SecondReached(i) ==
    /\ LastCallRunning
    /\ Cardinality(Reaching(i)) >= 2

\* C25: in every reachable GameState hits_scored[i] is 0 or 1, ship 1 - i
\* is dead exactly when hits_scored[i] = 1, and hits_scored[i] is at most
\* shots_fired[i]; a second projectile that reaches a ship already hit in
\* the same tick scores nothing and stays in the collection.
C25_HitsAndDeaths ==
    /\ \A i \in {0, 1} :
           /\ state.ships[i].hits_scored \in {0, 1}
           /\ ~state.ships[1 - i].alive <=> state.ships[i].hits_scored = 1
           /\ state.ships[i].hits_scored <= state.ships[i].shots_fired
    /\ \A i \in {0, 1} :
           SecondReached(i) =>
               /\ state.ships[1 - i].hits_scored = prev.ships[1 - i].hits_scored + 1
               /\ \A k \in Reaching(i) \ {Registered(i)} :
                      \E j \in DOMAIN state.projectiles :
                          state.projectiles[j] = ProjectilesAtDetection[k]
               /\ Len(state.projectiles) =
                      Len(ProjectilesAtDetection) - Cardinality(Killed)

\* C25 witness: two projectiles of one ship reached the other ship in the
\* same update; the ship died, one hit was scored and a projectile within
\* the hit radius of the dead ship is still in flight
C25_Witness ==
    \E i \in {0, 1} :
        /\ SecondReached(i)
        /\ ~state.ships[i].alive
        /\ state.ships[1 - i].hits_scored = 1
        /\ state.ships[1 - i].shots_fired >= 2
        /\ \E j \in DOMAIN state.projectiles :
               /\ state.projectiles[j].owner = 1 - i
               /\ WithinHitRadius(state.projectiles[j], state.ships[i])

\* run_match returned and exactly ship w is alive
SoleSurvivor(w) ==
    /\ pc = "done"
    /\ state.ships[w].alive
    /\ ~state.ships[1 - w].alive

\* C26: for every match run_match produces in which exactly one ship is
\* alive at the end, the fitness of the surviving ship is strictly greater
\* than the fitness of the dead ship, whatever the shots fired, the average
\* proximity and the elapsed time; the dead ship gets no win bonus and no
\* hit bonus: its fitness is at most what shots, proximity and survival
\* time give after the death penalty, and the survivor's is at least the
\* win bonus plus the hit bonus.
C26_WinnerScoresMore ==
    \A w \in {0, 1} :
        SoleSurvivor(w) =>
            /\ result[w] > result[1 - w]
            /\ state.ships[1 - w].hits_scored = 0
            /\ result[1 - w] <= (10 + 20 + 5 - 20) * Milli
            /\ result[w] >= (100 + 50) * Milli

\* C26 witness: run_match returned before the time ran out with one ship
\* dead that fired at least as many shots as the survivor
C26_Witness ==
    \E w \in {0, 1} :
        /\ SoleSurvivor(w)
        /\ state.time < MatchTicks
        /\ state.ships[1 - w].shots_fired >= state.ships[w].shots_fired
        /\ state.ships[1 - w].shots_fired > 1

====
